---- MODULE Spec2Model ----
(***************************************************************************)
(* Home Health Assistant (src/app.py): the SQLite-backed message store,    *)
(* the patient table, the appointment directory with its day-scoped        *)
(* upsert, the day listing, the messaging and schedule request handlers,   *)
(* and the nearest-neighbour route optimizer.                              *)
(*                                                                         *)
(* Time.  A datetime is a record [day, slot, off]: `day` counts calendar    *)
(* days and `slot` is the time of day as written, slot 0 being midnight,   *)
(* and `off` is how far its UTC offset puts that clock ahead of the local  *)
(* zone (0 for a local datetime).  to_epoch maps it to the number start_ts *)
(* stored in the table.  Day 0 is a Monday.                                *)
(***************************************************************************)
EXTENDS Integers, Sequences, FiniteSets, TLC

\* ------------------------------------------------------------------ bounds
\* Calendar days "now" ranges over: 0 .. MaxDays-1.
MaxDays == 1
\* Times of day per calendar day: slots 0 .. SlotsPerDay-1.
SlotsPerDay == 2
\* Rows the appointments table may hold.
MaxRows == 2
\* Requests handled at the same time (threads of the Flask server).
NumWorkers == 2
\* Appointments handed to optimize_route in one call.
MaxStops == 3
\* Words in a message text given to the text functions.
MaxWords == 2
\* Rows in the messages table beyond which no further POST /send-sms is sent
\* (the inbound handlers log one or two rows for each request a worker takes).
MaxMsgs == 2
\* Largest patient id a schedule request names, and largest AUTOINCREMENT id
\* the patients table hands out on the schedule surface.
MaxPatientId == 2
\* Times the sender's phone is registered on the messaging surface.
MaxRegistrations == 1

\* ------------------------------------------------------ program constants
\* duration_min=60 default of create_or_update_appt, `dur or 60`, duration = 60.
DefaultDuration == 60

\* SQL NULL / Python None in a TEXT column or an optional string.
None == "None"
\* No row: the id a lookup yields when fetchone() returns None.
NoRow == 0
\* SQL NULL / None in a REAL column or an optional number; a number x is <<x>>.
NoNumber == <<>>

VARIABLES
    patients,       \* table patients: set of rows
    patient_seq,    \* sqlite_sequence entry of patients (AUTOINCREMENT)
    appointments,   \* table appointments: sequence of rows, appointments[i].id = i
    messages,       \* table messages: sequence of rows in insertion order
    resp,           \* the response to the request last handled
    pc,             \* per worker: where the handler it runs stands
    req,            \* per worker: its request and its create_or_update_appt call
    row,            \* per worker: the id its SELECT returned (NoRow: none)
    r_pc,           \* optimize_route: where the call stands
    r_appts,        \* optimize_route: its argument appts
    r_ordered,      \* optimize_route: ordered, as positions in appts (0: None)
    r_remaining,    \* optimize_route: remaining, as positions in appts
    r_k,            \* optimize_route: position of the for loop in remaining
    r_best,         \* optimize_route: best, a position in appts (0: None)
    r_best_score,   \* optimize_route: best_score, a <<whole, thousandths>> pair
    r_seen,         \* optimize_route: the scores `mins` of this pass of the for loop
    r_out,          \* optimize_route: the value returned
    t_pc,           \* text functions: where the call stands
    t_text,         \* text functions: the message text, a sequence of words
    t_base,         \* text functions: the reference day `base`
    t_intent,       \* text functions: what detect_intent returned
    t_parsed        \* text functions: what parse_natural_time_minimal returned

vars == <<patients, patient_seq, appointments, messages, resp, pc, req, row,
          r_pc, r_appts, r_ordered, r_remaining, r_k, r_best, r_best_score, r_seen,
          r_out, t_pc, t_text, t_base, t_intent, t_parsed>>

\* The state of the workers that serve requests concurrently.
workerVars == <<pc, req, row>>

\* The state of a call of optimize_route.
routeVars == <<r_pc, r_appts, r_ordered, r_remaining, r_k, r_best, r_best_score, r_seen,
               r_out>>

\* The state of a call of detect_intent or parse_natural_time_minimal.
textVars == <<t_pc, t_text, t_base, t_intent, t_parsed>>

\* ------------------------------------------------------------ time helpers
Slots == 0 .. (SlotsPerDay - 1)
NowDays == 0 .. (MaxDays - 1)

\* A datetime is its written calendar day and time of day, and off: by how
\* many slots its UTC offset puts its clock ahead of the local zone TZ (0 for
\* a datetime carrying tzinfo=TZ).

\* dt.timestamp().
to_epoch(dt) ==
    dt.day * SlotsPerDay + dt.slot - dt.off

\* datetime.fromtimestamp(ts, TZ).
from_epoch(ts) ==
    [day |-> ts \div SlotsPerDay, slot |-> ts % SlotsPerDay, off |-> 0]

\* datetime(d.year, d.month, d.day, 0, 0, tzinfo=TZ): local midnight of the
\* day written in dt, whatever offset dt carries.
day_start(dt) ==
    [day |-> dt.day, slot |-> 0, off |-> 0]

\* day_start + timedelta(days=1): the next local midnight.
day_end(dt) ==
    [day |-> dt.day + 1, slot |-> 0, off |-> 0]

\* x BETWEEN lo AND hi of SQL: both ends included.
BETWEEN(x, lo, hi) ==
    lo <= x /\ x <= hi

\* ------------------------------------------------------------ message store
\* log_message: INSERT INTO messages.
log_message(msgs, direction, frm, to, intent, kind, note) ==
    Append(msgs, [direction |-> direction, kind |-> kind, intent |-> intent,
                  frm |-> frm, to_number |-> to, note |-> note])

\* A lookup for which an empty phone matches every patient.
find_patient_by_phone_like(phone) ==
    IF phone = "" THEN patients ELSE {p \in patients : p.phone = phone}

\* find_patient_by_phone: the rows with that phone (none for an empty phone;
\* phone is UNIQUE, so at most one).
find_patient_by_phone(phone) ==
    IF phone = "" THEN {} ELSE {p \in patients : p.phone = phone}

\* --------------------------------------------------- intent & time parsing
\* A message body, by what the regexes and substring tests see in it:
\*   yes      YES_RE matches            resch   RESCH_RE matches
\*   time     "none": TIME_RE does not match; "ok": its first match is a
\*            valid time of day (slot); "bad": its first match is out of
\*            range (hour 24..99 or minute 60..99)
\*   tomorrow "tomorrow" in t           next    "next" in t
\*   wds      the WEEKDAY_MAP indices whose keys occur in t
\* A classifier that tries TIME_RE before the keyword classes.
detect_intent_time_first(body) ==
    IF body.time # "none" THEN "time"
    ELSE IF body.yes THEN "confirm"
    ELSE IF body.resch THEN "reschedule"
    ELSE "other"

detect_intent(body) ==
    IF body.yes THEN "confirm"
    ELSE IF body.resch THEN "reschedule"
    ELSE IF body.time # "none" THEN "time"
    ELSE "other"

\* min of a non-empty set of integers.
SetMin(S) ==
    CHOOSE x \in S : \A y \in S : x <= y

\* The target day of parse_natural_time_minimal.  WEEKDAY_MAP lists its keys
\* by ascending index, so the first key found is the least index mentioned.
target_day(body, base) ==
    IF body.tomorrow THEN base + 1
    ELSE IF body.wds # {} THEN
        LET idx == SetMin(body.wds)
            d0 == (idx - (base % 7)) % 7
            delta == IF d0 = 0 /\ body.next THEN 7 ELSE d0
        IN base + delta
    ELSE base

\* parse_natural_time_minimal.  `found` is `start_dt is not None`; the
\* duration is 60 unless the text names one (body.dur, see duration_named).
parse_natural_time_minimal(body, base) ==
    IF body.time = "none" THEN
        [found |-> FALSE, start |-> [day |-> 0, slot |-> 0, off |-> 0], dur |-> 0,
         status |-> "no_time_found"]
    ELSE IF body.time = "bad" THEN
        [found |-> FALSE, start |-> [day |-> 0, slot |-> 0, off |-> 0], dur |-> 0,
         status |-> "invalid_time"]
    ELSE
        [found |-> TRUE, start |-> [day |-> target_day(body, base), slot |-> body.slot,
                              off |-> 0],
         dur |-> IF body.dur = NoNumber THEN DefaultDuration ELSE body.dur[1],
         status |-> "ok"]

\* parse_natural_time with the dateparser layer absent (FEATURE_DATEPARSER
\* false).
parse_natural_time(body, base) ==
    parse_natural_time_minimal(body, base)

\* ------------------------------------------------------------ message texts
\* A text is a sequence of words, standing for the words joined by single
\* spaces; the empty sequence is the empty (or null) text.
Vocabulary ==
    {"yes", "OK", "yesterday", "move", "another", "time", "3pm", "12am", "25",
     "monday", "fri", "sunday", "next", "tomorrow", "month",
     "45min", "0min", "min", "2h"}

Texts ==
    UNION {[1 .. n -> Vocabulary] : n \in 0 .. MaxWords}

\* Reference days, one for each weekday: day d falls on weekday d % 7 (0 is
\* Monday, as datetime.weekday() has it).
RefDays == 0 .. 6

\* (text or "").lower().
lower(text) ==
    [i \in DOMAIN text |-> IF text[i] = "OK" THEN "ok" ELSE text[i]]

\* YES_RE.search(t): one of the alternatives stands as a whole word.
YES_RE(t) ==
    \E i \in DOMAIN t :
        t[i] \in {"yes", "yeah", "yep", "ok", "okay", "confirm", "confirmed", "si", "sim"}

\* RESCH_RE.search(t): a one-word alternative, or "another time" / "different
\* time" as two words in a row.
RESCH_RE(t) ==
    \E i \in DOMAIN t :
        \/ t[i] \in {"resched", "reschedule", "move", "change"}
        \/ /\ t[i] \in {"another", "different"}
           /\ i + 1 \in DOMAIN t
           /\ t[i + 1] = "time"

\* TIME_RE on one word, with the range test of parse_natural_time_minimal on
\* the hour and minute matched: "3pm" is 15:00 (slot 1), "12am" is 00:00 (slot
\* 0), "25" matches with hour 25; a word that is not one or two digits with an
\* optional am/pm does not match.
TIME_RE(word) ==
    CASE word = "3pm" -> [kind |-> "ok", slot |-> 1]
      [] word = "12am" -> [kind |-> "ok", slot |-> 0]
      [] word = "25" -> [kind |-> "bad", slot |-> 0]
      [] OTHER -> [kind |-> "none", slot |-> 0]

\* The duration searches of parse_natural_time_minimal at position i of a
\* text: digits followed by min|mins|minutes, in one word or in two, give that
\* many minutes; digits followed by h|hour|hours give int(float(digits) * 60).
\* NoNumber when nothing matches at i.
minutes_at(t, i) ==
    CASE t[i] = "45min" -> <<45>>
      [] t[i] = "0min" -> <<0>>
      [] t[i] = "25" /\ i + 1 \in DOMAIN t /\ t[i + 1] = "min" -> <<25>>
      [] OTHER -> NoNumber

hours_at(t, i) ==
    CASE t[i] = "2h" -> <<2 * 60>>
      [] OTHER -> NoNumber

\* The duration a text names: the first minutes match when there is one,
\* else the first hours match, else none.
duration_named(t) ==
    LET mins == {i \in DOMAIN t : minutes_at(t, i) # NoNumber}
        hrs == {i \in DOMAIN t : hours_at(t, i) # NoNumber}
    IN IF mins # {} THEN minutes_at(t, SetMin(mins))
       ELSE IF hrs # {} THEN hours_at(t, SetMin(hrs))
       ELSE NoNumber

\* The WEEKDAY_MAP indices whose keys are substrings of a word.
WEEKDAY_MAP(word) ==
    CASE word \in {"monday", "month"} -> {0}
      [] word = "fri" -> {4}
      [] word = "sunday" -> {6}
      [] OTHER -> {}

\* What the regexes and the substring tests see in a text: TIME_RE.search
\* yields the first match.
features(text) ==
    LET t == lower(text)
        timed == {i \in DOMAIN t : TIME_RE(t[i]).kind # "none"}
        m == IF timed = {} THEN [kind |-> "none", slot |-> 0]
             ELSE TIME_RE(t[SetMin(timed)])
    IN [yes |-> YES_RE(t), resch |-> RESCH_RE(t),
        tomorrow |-> \E i \in DOMAIN t : t[i] = "tomorrow",
        next |-> \E i \in DOMAIN t : t[i] = "next",
        wds |-> UNION {WEEKDAY_MAP(t[i]) : i \in DOMAIN t},
        time |-> m.kind, slot |-> m.slot, dur |-> duration_named(t),
        empty |-> text = <<>>]

\* No result yet.
NoParse ==
    [found |-> FALSE, start |-> [day |-> 0, slot |-> 0, off |-> 0], dur |-> 0, status |-> None]

\* ------------------------------------------------------ scheduling helpers
\* The SELECT of create_or_update_appt: the row of patient_id whose start_ts is
\* BETWEEN day_start and day_end that ORDER BY start_ts DESC LIMIT 1 returns
\* (as a set: empty when fetchone() is None).  SQLite answers from
\* idx_appt_start, whose entries are ordered by (start_ts, rowid): walked
\* backwards, rows of equal start_ts come highest id first.
appt_lookup(appts, patient_id, start_dt) ==
    LET hit == {i \in DOMAIN appts :
                    /\ appts[i].patient_id = patient_id
                    /\ BETWEEN(appts[i].start_ts, to_epoch(day_start(start_dt)),
                               to_epoch(day_end(start_dt)))}
    IN {i \in hit : \A j \in hit :
            \/ appts[j].start_ts < appts[i].start_ts
            \/ appts[j].start_ts = appts[i].start_ts /\ j <= i}

\* An UPDATE that leaves the status column out of its SET list.
appt_update_keeps_status(appts, id, therapist, start_dt, duration_min, status, source, note) ==
    [appts EXCEPT ![id] =
        [@ EXCEPT !.therapist = therapist, !.start_ts = to_epoch(start_dt),
                  !.duration_min = duration_min,
                  !.source = source, !.note = note]]

\* The UPDATE of create_or_update_appt.
appt_update(appts, id, therapist, start_dt, duration_min, status, source, note) ==
    [appts EXCEPT ![id] =
        [@ EXCEPT !.therapist = therapist, !.start_ts = to_epoch(start_dt),
                  !.duration_min = duration_min, !.status = status,
                  !.source = source, !.note = note]]

\* The INSERT of create_or_update_appt; the new id is cur.lastrowid.
appt_insert(appts, patient_id, therapist, start_dt, duration_min, status, source, note) ==
    Append(appts, [id |-> Len(appts) + 1, patient_id |-> patient_id,
                   therapist |-> therapist, start_ts |-> to_epoch(start_dt),
                   duration_min |-> duration_min, status |-> status,
                   source |-> source, note |-> note])

\* create_or_update_appt run to completion on table `appts`: its outcome
\* [appts, id], the table afterwards and the id returned (as the one element of
\* a set).
create_or_update_appt(appts, patient_id, therapist, start_dt, duration_min, status, source, note) ==
    LET rows == appt_lookup(appts, patient_id, start_dt)
    IN IF rows # {}
       THEN {[appts |-> appt_update(appts, id, therapist, start_dt, duration_min,
                                     status, source, note),
              id |-> id] : id \in rows}
       ELSE {[appts |-> appt_insert(appts, patient_id, therapist, start_dt,
                                     duration_min, status, source, note),
              id |-> Len(appts) + 1]}

\* The patient row LEFT JOINed to an appointment: its phone, lat and lon (NULL
\* when no patient row has that id).
joined(a) ==
    LET ps == {p \in patients : p.id = a.patient_id}
    IN IF ps = {}
       THEN [id |-> a.id, patient_id |-> a.patient_id, therapist |-> a.therapist,
             start_ts |-> a.start_ts, duration_min |-> a.duration_min,
             status |-> a.status, source |-> a.source, note |-> a.note,
             patient_phone |-> None, lat |-> NoNumber, lon |-> NoNumber]
       ELSE LET p == CHOOSE q \in ps : TRUE
            IN [id |-> a.id, patient_id |-> a.patient_id, therapist |-> a.therapist,
                start_ts |-> a.start_ts, duration_min |-> a.duration_min,
                status |-> a.status, source |-> a.source, note |-> a.note,
                patient_phone |-> p.phone, lat |-> p.lat, lon |-> p.lon]

\* The ids the WHERE clause of list_appointments selects: start_ts BETWEEN the
\* day's midnight and the next, AND a.therapist = ? when a therapist is given
\* (`if therapist:` treats None and "" alike).
list_where(appts, day, therapist) ==
    {i \in DOMAIN appts :
        /\ BETWEEN(appts[i].start_ts, to_epoch([day |-> day, slot |-> 0, off |-> 0]),
                   to_epoch(day_end([day |-> day, slot |-> 0, off |-> 0])))
        /\ (therapist \in {None, ""} \/ appts[i].therapist = therapist)}

\* ORDER BY start_ts ASC over the selected rows, read forwards off
\* idx_appt_start: rows of equal start_ts come lowest id first.  (A set holding
\* the one resulting order.)
order_by_start(appts, ids) ==
    {s \in [1 .. Cardinality(ids) -> ids] :
        \A i, j \in DOMAIN s : i < j =>
            \/ appts[s[i]].start_ts < appts[s[j]].start_ts
            \/ appts[s[i]].start_ts = appts[s[j]].start_ts /\ s[i] < s[j]}

\* list_appointments(day, therapist): the result, a sequence of joined rows
\* (as the one element of a set).
list_appointments(day, therapist) ==
    {[k \in DOMAIN s |-> joined(appointments[s[k]])] :
        s \in order_by_start(appointments, list_where(appointments, day, therapist))}

\* pts of optimize_route: the entries with both lat and lon.
pts(appts) ==
    SelectSeq(appts, LAMBDA a : a.lat # NoNumber /\ a.lon # NoNumber)

\* ------------------------------------------------------------ configuration
\* TWILIO_READY: no Twilio credentials in the environment, MODE = "mock";
\* validator is then None as well.
TWILIO_READY == FALSE

\* FEATURE_DRIVETIME_ROUTE: no GOOGLE_MAPS_API_KEY in the environment, so that
\* distance_matrix_minutes returns None for every pair when the service plans
\* a route.
FEATURE_DRIVETIME_ROUTE == FALSE

\* ------------------------------------------------------------------ inputs
Phone == "+1555"
OtherPhone == "+1556"
ClinicNumber == "+1999"

\* The lat and lon of a POST /patients body: left out, or a point on the
\* equator.
PatientCoordinates ==
    {[lat |-> NoNumber, lon |-> NoNumber], [lat |-> <<0>>, lon |-> <<3>>]}

\* The UTC offset an ISO start may carry, as slots ahead of the local zone: 0
\* for the local offset or none at all.
Offsets == {0, 1}

\* Free text without a time of day, and the empty text.
Hello ==
    [yes |-> FALSE, resch |-> FALSE, tomorrow |-> FALSE, next |-> FALSE,
     wds |-> {}, time |-> "none", slot |-> 0, dur |-> NoNumber, empty |-> FALSE]

Empty ==
    [Hello EXCEPT !.empty = TRUE]

\* The phones messages come from: the one POST /patients registers, one that
\* is never on file, and a missing From.
Senders == {Phone, OtherPhone, ""}

\* The message bodies: free text, nothing, "yes", a time of day, "yes" with a
\* time of day, "move" with a time of day, an hour no clock has, and a time of
\* day (midnight) with a duration of 45 minutes.
Bodies ==
    {Hello, Empty,
     [Hello EXCEPT !.yes = TRUE],
     [Hello EXCEPT !.time = "ok", !.slot = 1],
     [Hello EXCEPT !.yes = TRUE, !.time = "ok", !.slot = 1],
     [Hello EXCEPT !.resch = TRUE, !.time = "ok", !.slot = 1],
     [Hello EXCEPT !.time = "bad"],
     [Hello EXCEPT !.time = "ok", !.dur = <<45>>]}

\* The optional fields of a POST /schedule request: given, or left out.
SchedOptions ==
    {[therapist |-> "T1", duration_min |-> 45, status |-> "confirmed", note |-> "visit"],
     [therapist |-> None, duration_min |-> 0, status |-> None, note |-> ""]}

\* The instants requests name: those not before the first local midnight.
StartDates ==
    {start : start \in
        {dt \in [day : 0 .. MaxDays, slot : Slots, off : Offsets] : to_epoch(dt) >= 0}}

\* The "start" field of POST /schedule: missing, an ISO datetime, or free
\* text.  The ISO datetimes are the instants from the first local midnight to
\* the second, written with the local offset or none, and the midnights
\* written with an offset of their own.
SchedStarts ==
    {[kind |-> "missing", dt |-> [day |-> 0, slot |-> 0, off |-> 0], text |-> Empty]}
    \cup {[kind |-> "iso", dt |-> dt, text |-> Empty] :
             dt \in {d \in StartDates : /\ to_epoch(d) <= SlotsPerDay
                                        /\ (d.off = 0 \/ d.slot = 0)}}
    \cup {[kind |-> "text", dt |-> [day |-> 0, slot |-> 0, off |-> 0], text |-> Hello]}

\* The "patient_id" field of POST /schedule: missing, or the id the first
\* POST /patients hands out.
SchedPatients == {NoRow, 1}

\* The local midnights visits are booked at.
VisitStarts ==
    {[day |-> d, slot |-> 0, off |-> 0] : d \in 0 .. MaxDays}

\* The "date" field of the schedule requests: missing, malformed, or a day.
Dates ==
    {[kind |-> "missing", day |-> 0], [kind |-> "bad", day |-> 0]}
    \cup {[kind |-> "iso", day |-> d] : d \in 0 .. MaxDays}

\* ----------------------------------------------------------------- handlers
\* The response: its HTTP status, the appointment id a schedule POST returns
\* (NoRow otherwise) and the appointments a schedule GET or optimize returns
\* (empty otherwise).
Response(code, id, appts) ==
    [code |-> code, id |-> id, appointments |-> appts]

\* patient.get("therapist") or "therapist"; data.get("therapist") or "therapist".
or_default(v, d) ==
    IF v \in {None, ""} THEN d ELSE v

\* POST /send-sms; `sent` is whether the Twilio call succeeds (live mode only).
send_sms(to, body, sent) ==
    IF to = "" \/ body.empty
    THEN /\ resp' = Response(400, NoRow, <<>>)
         /\ UNCHANGED <<patients, patient_seq, appointments, messages>>
    ELSE /\ Len(messages) < MaxMsgs
         /\ messages' = log_message(messages, "out", "", to, "other",
                            IF TWILIO_READY THEN "twilio" ELSE "mock",
                            IF ~TWILIO_READY THEN "mock-send"
                            ELSE IF sent THEN "live" ELSE "error")
         /\ resp' = Response(IF TWILIO_READY /\ ~sent THEN 502 ELSE 200,
                             NoRow, <<>>)
         /\ UNCHANGED <<patients, patient_seq, appointments>>

\* POST /patients: INSERT OR REPLACE keyed by the UNIQUE phone.  A row with
\* that phone is deleted and the new row takes a fresh AUTOINCREMENT id.
patients_create(phone, therapist, lat, lon) ==
    IF phone = ""
    THEN /\ resp' = Response(400, NoRow, <<>>)
         /\ UNCHANGED <<patients, patient_seq, appointments, messages>>
    ELSE /\ patient_seq' = patient_seq + 1
         /\ patients' = {p \in patients : p.phone # phone}
                \cup {[id |-> patient_seq + 1, phone |-> phone,
                       therapist |-> therapist, lat |-> lat, lon |-> lon]}
         /\ resp' = Response(200, NoRow, <<>>)
         /\ UNCHANGED <<appointments, messages>>

\* GET /schedule: a missing date means today; a malformed one makes
\* datetime.fromisoformat raise, which Flask answers with 500.
schedule_list(date, therapist, now) ==
    /\ UNCHANGED <<patients, patient_seq, appointments, messages>>
    /\ IF date.kind = "bad"
       THEN resp' = Response(500, NoRow, <<>>)
       ELSE LET d == IF date.kind = "missing" THEN now ELSE date.day
            IN \E appts \in list_appointments(d, therapist) :
                resp' = Response(200, NoRow, appts)

Workers == 1 .. NumWorkers

\* What a worker holds of its request: the handler it runs, the sender and
\* text of a message, and the arguments of its create_or_update_appt call.
NoRequest ==
    [handler |-> None, frm |-> "", body |-> Empty,
     patient_id |-> NoRow, therapist |-> None,
     start_dt |-> [day |-> 0, slot |-> 0, off |-> 0],
     duration_min |-> 0, status |-> None, source |-> None, note |-> None]

\* POST /schedule reaches worker w and runs up to its first database access.
\* pid = NoRow stands for a missing (or zero) patient_id; a request without it,
\* or without a start that reads as a datetime, is answered 400 there and
\* then.  An ISO start keeps the offset it carries; one without gets
\* tzinfo=TZ.  Otherwise the worker enters create_or_update_appt.
schedule_create(w, pid, start, opt, now) ==
    LET parsed == parse_natural_time(start.text, now)
        found == IF start.kind = "iso" THEN TRUE
                 ELSE IF start.kind = "text" THEN parsed.found
                 ELSE FALSE
        start_dt == IF start.kind = "iso" THEN start.dt ELSE parsed.start
        dur == IF opt.duration_min = 0 THEN DefaultDuration ELSE opt.duration_min
    IN /\ pc[w] = "idle"
       /\ IF pid = NoRow \/ ~found
          THEN /\ resp' = Response(400, NoRow, <<>>)
               /\ UNCHANGED <<pc, req>>
          ELSE /\ pc' = [pc EXCEPT ![w] = "select"]
               /\ req' = [req EXCEPT ![w] =
                           [NoRequest EXCEPT
                               !.handler = "schedule",
                               !.patient_id = pid,
                               !.therapist = or_default(opt.therapist, "therapist"),
                               !.start_dt = start_dt,
                               !.duration_min = dur,
                               !.status = or_default(opt.status, "pending"),
                               !.source = "manual",
                               !.note = opt.note]]
               /\ UNCHANGED resp
       /\ UNCHANGED <<patients, patient_seq, appointments, messages, row, routeVars, textVars>>

\* The request of worker w has been answered and its thread ends: the worker
\* is free to serve another request.
schedule_return(w) ==
    /\ pc[w] = "done"
    /\ pc' = [pc EXCEPT ![w] = "idle"]
    /\ req' = [req EXCEPT ![w] = NoRequest]
    /\ row' = [row EXCEPT ![w] = NoRow]
    /\ UNCHANGED <<patients, patient_seq, appointments, messages, resp, routeVars, textVars>>

\* store.json as the service may find it at start: absent (or without
\* messages), or holding one inbound message of the earlier JSON store.  A
\* message has kind and intent at its top level, in its nested meta, in both
\* or in neither (None: the key is missing); here meta holds a kind that
\* differs from the top-level one, and no intent.
LegacyStores ==
    {<<>>,
     <<[direction |-> "in", kind |-> "live", intent |-> "confirm",
        meta |-> [kind |-> "simulate", intent |-> None],
        to |-> ClinicNumber, note |-> "twilio-in"]>>}

\* The row migrate_from_legacy_json inserts for a message m of store.json:
\* kind and intent come from m["meta"] first, then from m itself, then from
\* the defaults "mock" and "other"; the direction column takes the kind, frm
\* takes m["to"] for an inbound message and to_number takes it for an
\* outbound one.
legacy_row(m) ==
    [direction |-> or_default(or_default(m.meta.kind, m.kind), "mock"),
     kind |-> or_default(or_default(m.meta.kind, m.kind), "mock"),
     intent |-> or_default(or_default(m.meta.intent, m.intent), "other"),
     frm |-> IF m.direction = "in" THEN m.to ELSE "",
     to_number |-> IF m.direction = "out" THEN m.to ELSE "",
     note |-> m.note]

\* migrate_from_legacy_json, run once at import after db_init: the messages of
\* store.json go into an empty messages table.
migrate_from_legacy_json(msgs, store) ==
    IF store = <<>> \/ Len(msgs) > 0 THEN msgs
    ELSE msgs \o [i \in DOMAIN store |-> legacy_row(store[i])]

Init ==
    /\ patients = {}
    /\ patient_seq = 0
    /\ appointments = <<>>
    /\ messages \in {migrate_from_legacy_json(<<>>, store) : store \in LegacyStores}
    /\ resp = Response(0, NoRow, <<>>)
    /\ pc = [w \in Workers |-> "idle"]
    /\ req = [w \in Workers |-> NoRequest]
    /\ row = [w \in Workers |-> NoRow]
    /\ r_pc = "idle"
    /\ r_appts = <<>>
    /\ r_ordered = <<>>
    /\ r_remaining = <<>>
    /\ r_k = 0
    /\ r_best = 0
    /\ r_best_score = <<0, 0>>
    /\ r_seen = <<>>
    /\ r_out = <<>>
    /\ t_pc = "idle"
    /\ t_text = <<>>
    /\ t_base = 0
    /\ t_intent = None
    /\ t_parsed = NoParse

SendSms ==
    /\ \E to \in {Phone, ""}, body \in {Hello, Empty},
          sent \in IF TWILIO_READY THEN BOOLEAN ELSE {TRUE} :
        send_sms(to, body, sent)
    /\ UNCHANGED <<workerVars, routeVars, textVars>>

PatientsCreate ==
    /\ \E phone \in {Phone, ""}, therapist \in {None},
          c \in PatientCoordinates :
        /\ phone # "" => patient_seq < MaxPatientId
        /\ patients_create(phone, therapist, c.lat, c.lon)
    /\ UNCHANGED <<workerVars, routeVars, textVars>>

\* POST /patients for the phone the inbound messages come from.
RegisterPatient ==
    /\ patient_seq < MaxRegistrations
    /\ patients_create(Phone, None, NoNumber, NoNumber)
    /\ UNCHANGED <<workerVars, routeVars, textVars>>

\* POST /schedule reaches a worker.
ScheduleCreate ==
    \E w \in Workers, pid \in SchedPatients, start \in SchedStarts,
       opt \in SchedOptions, now \in NowDays :
        schedule_create(w, pid, start, opt, now)

\* POST /schedule for a visit of the first patient at a midnight.
ScheduleVisit ==
    \E w \in Workers, dt \in VisitStarts, opt \in SchedOptions, now \in NowDays :
        schedule_create(w, 1, [kind |-> "iso", dt |-> dt, text |-> Empty], opt, now)

ScheduleReturn ==
    \E w \in Workers : schedule_return(w)

ScheduleList ==
    /\ \E date \in Dates, therapist \in {"T1", None}, now \in NowDays :
        schedule_list(date, therapist, now)
    /\ UNCHANGED <<workerVars, routeVars, textVars>>

\* ----------------------------------------------------- concurrent requests
\* The server runs each request on a thread of its own, and every database
\* access of a handler opens a connection of its own (db() opens one per
\* call): log_message, find_patient_by_phone and create_or_update_appt each
\* commit by themselves.  Inside create_or_update_appt sqlite3 opens no
\* transaction for the SELECT, so the lookup and the UPDATE or INSERT are two
\* statements that statements of other requests may come between; each
\* statement by itself is atomic.

\* A worker takes a POST /schedule request that passes validation and enters
\* create_or_update_appt.
appt_call(w, pid, start_dt, opt) ==
    /\ pc[w] = "idle"
    /\ pc' = [pc EXCEPT ![w] = "select"]
    /\ req' = [req EXCEPT ![w] =
                [NoRequest EXCEPT
                    !.handler = "schedule",
                    !.patient_id = pid,
                    !.therapist = or_default(opt.therapist, "therapist"),
                    !.start_dt = start_dt,
                    !.duration_min = IF opt.duration_min = 0 THEN DefaultDuration
                                     ELSE opt.duration_min,
                    !.status = or_default(opt.status, "pending"),
                    !.source = "manual",
                    !.note = opt.note]]
    /\ UNCHANGED <<patients, patient_seq, appointments, messages, resp, row, routeVars, textVars>>

\* A worker takes a POST /simulate-sms or POST /inbound-sms request and runs
\* it through its first log_message, which commits the inbound row.
sms_call(w, handler, frm, to, body, valid) ==
    /\ pc[w] = "idle"
    /\ IF handler = "inbound" /\ TWILIO_READY /\ ~valid
       THEN /\ resp' = Response(403, NoRow, <<>>)
            /\ pc' = [pc EXCEPT ![w] = "done"]
            /\ UNCHANGED messages
       ELSE /\ messages' =
                 IF handler = "simulate"
                 THEN log_message(messages, "in", frm, "", detect_intent(body),
                                  "simulate", "simulate-in")
                 ELSE log_message(messages, "in", frm, to, detect_intent(body),
                                  IF TWILIO_READY THEN "live" ELSE "mock", "twilio-in")
            /\ pc' = [pc EXCEPT ![w] = "find"]
            /\ UNCHANGED resp
    /\ req' = [req EXCEPT ![w] =
                [NoRequest EXCEPT !.handler = handler, !.frm = frm, !.body = body]]
    /\ UNCHANGED <<patients, patient_seq, appointments, row, routeVars, textVars>>

\* find_patient_by_phone (a SELECT on its own connection), parse_natural_time
\* at the time `now`, and what follows up to the next database access: the
\* entry into create_or_update_appt; or the auto-reply of /simulate-sms to a
\* confirmation; or the response.
sms_find(w, now) ==
    /\ pc[w] = "find"
    /\ LET r == req[w]
           intent == detect_intent(r.body)
           patient == find_patient_by_phone(r.frm)
           parsed == parse_natural_time(r.body, now)
       IN IF patient # {} /\ parsed.found
          THEN \E p \in patient :
                /\ req' = [req EXCEPT ![w] =
                            [r EXCEPT
                                !.patient_id = p.id,
                                !.therapist = or_default(p.therapist, "therapist"),
                                !.start_dt = parsed.start,
                                !.duration_min = IF parsed.dur = 0 THEN DefaultDuration
                                                 ELSE parsed.dur,
                                !.status = IF intent = "confirm" THEN "confirmed"
                                           ELSE "pending",
                                !.source = "inbound",
                                !.note = IF r.handler = "simulate"
                                         THEN "auto from simulate"
                                         ELSE "auto from inbound"]]
                /\ pc' = [pc EXCEPT ![w] = "select"]
                /\ UNCHANGED resp
          ELSE IF r.handler = "simulate" /\ intent = "confirm"
          THEN /\ pc' = [pc EXCEPT ![w] = "reply"]
               /\ UNCHANGED <<req, resp>>
          ELSE /\ pc' = [pc EXCEPT ![w] = "done"]
               /\ resp' = Response(200, NoRow, <<>>)
               /\ UNCHANGED req
    /\ UNCHANGED <<patients, patient_seq, appointments, messages, row, routeVars, textVars>>

\* The SELECT ... LIMIT 1 and fetchone().
appt_select(w) ==
    /\ pc[w] = "select"
    /\ LET rows == appt_lookup(appointments, req[w].patient_id, req[w].start_dt)
       IN IF rows = {}
          THEN row' = [row EXCEPT ![w] = NoRow]
          ELSE \E id \in rows : row' = [row EXCEPT ![w] = id]
    /\ pc' = [pc EXCEPT ![w] = "write"]
    /\ UNCHANGED <<patients, patient_seq, appointments, messages, resp, req, routeVars, textVars>>

\* `if row:` UPDATE ... WHERE id = row["id"], else INSERT; commit on leaving
\* the with-block.  POST /schedule answers with the id, POST /inbound-sms with
\* its reply; POST /simulate-sms has its auto-reply to log first.
appt_write(w) ==
    /\ pc[w] = "write"
    /\ LET r == req[w]
           id == IF row[w] # NoRow THEN row[w] ELSE Len(appointments) + 1
       IN /\ IF row[w] # NoRow
             THEN appointments' = appt_update(appointments, row[w], r.therapist,
                                    r.start_dt, r.duration_min, r.status, r.source,
                                    r.note)
             ELSE /\ Len(appointments) < MaxRows
                  /\ appointments' = appt_insert(appointments, r.patient_id,
                                        r.therapist, r.start_dt, r.duration_min,
                                        r.status, r.source, r.note)
          /\ IF r.handler = "simulate"
             THEN /\ pc' = [pc EXCEPT ![w] = "reply"]
                  /\ UNCHANGED resp
             ELSE /\ pc' = [pc EXCEPT ![w] = "done"]
                  /\ resp' = Response(200, IF r.handler = "schedule" THEN id ELSE NoRow,
                                      <<>>)
    /\ UNCHANGED <<patients, patient_seq, messages, req, row, routeVars, textVars>>

\* The second log_message of POST /simulate-sms, which commits the auto-reply,
\* and the response.
sms_reply(w) ==
    /\ pc[w] = "reply"
    /\ messages' = log_message(messages, "out", "", req[w].frm, "other", "simulate",
                               "auto-reply")
    /\ resp' = Response(200, NoRow, <<>>)
    /\ pc' = [pc EXCEPT ![w] = "done"]
    /\ UNCHANGED <<patients, patient_seq, appointments, req, row, routeVars, textVars>>

ApptCall ==
    \E w \in Workers, pid \in 1 .. MaxPatientId, start_dt \in StartDates,
       opt \in SchedOptions :
        appt_call(w, pid, start_dt, opt)

\* POST /simulate-sms reaches a worker.
SimulateSms ==
    \E w \in Workers, frm \in Senders, body \in Bodies :
        sms_call(w, "simulate", frm, "", body, TRUE)

\* POST /inbound-sms reaches a worker; `valid` is the outcome of the signature
\* check, made only when a validator is configured.
InboundSms ==
    \E w \in Workers, frm \in Senders, body \in Bodies,
       valid \in IF TWILIO_READY THEN BOOLEAN ELSE {TRUE} :
        sms_call(w, "inbound", frm, ClinicNumber, body, valid)

SmsFind ==
    \E w \in Workers, now \in NowDays : sms_find(w, now)

ApptSelect ==
    \E w \in Workers : appt_select(w)

ApptWrite ==
    \E w \in Workers : appt_write(w)

SmsReply ==
    \E w \in Workers : sms_reply(w)

\* Requests served at the same time, each worker one request.  POST /patients
\* and POST /send-sms make one database access each, so each is one step.
NextConc ==
    \/ RegisterPatient
    \/ SendSms
    \/ ApptCall
    \/ SimulateSms
    \/ InboundSms
    \/ SmsFind
    \/ ApptSelect
    \/ ApptWrite
    \/ SmsReply

SpecConc == Init /\ [][NextConc]_vars

\* The messaging surface by itself: POST /patients for the sender's phone and
\* the two inbound handlers, each worker one request, every database access a
\* step of its own.
NextMsg ==
    \/ RegisterPatient
    \/ SimulateSms
    \/ InboundSms
    \/ SmsFind
    \/ ApptSelect
    \/ ApptWrite
    \/ SmsReply

SpecMsg == Init /\ [][NextMsg]_vars

\* ---------------------------------------------------------- route optimizer
\* A score (kilometres or minutes) is a pair <<whole, thousandths>>, so that
\* the haversine kilometres and the drive-time minutes optimize_route compares
\* are exact in whole numbers.
\* A comparison that every candidate passes.
score_any(a, b) ==
    TRUE

\* `mins < best_score` on such pairs.
score_less(a, b) ==
    \/ a[1] < b[1]
    \/ a[1] = b[1] /\ a[2] < b[2]

\* haversine(lat1, lon1, lat2, lon2) for two points on the equator (lat1 = lat2
\* = 0) with whole-degree longitudes: 111.195 km per degree.
haversine(lat1, lon1, lat2, lon2) ==
    LET d == IF lon2 >= lon1 THEN lon2 - lon1 ELSE lon1 - lon2
        m == 111195 * d
    IN <<m \div 1000, m % 1000>>

\* What distance_matrix_minutes may return for a pair: None (no API key, a
\* timeout, a response without rows, elements or duration), or the minutes
\* dur["value"]/60.0 the response carries, which the code takes as they come.
DriveMinutes ==
    {NoNumber, <<1>>, <<200>>, <<1000000000>>}

\* best_score = 1e9.
best_score_init ==
    <<1000000000, 0>>

\* id_to_order.get(r["id"], 9999): the rank of an entry without a place in
\* `ordered`.
unranked == 9999

\* A threshold of one coordinate-bearing entry instead of two.
too_few_one(n) ==
    n < 1

\* `len(pts) < 2`.
too_few(n) ==
    n < 2

\* The positions in appts of the entries pts holds, in order.
pts_positions(appts) ==
    {k \in DOMAIN appts : appts[k].lat # NoNumber /\ appts[k].lon # NoNumber}

\* A set of positions as the list that keeps the order of appts.
in_order(S) ==
    CHOOSE q \in [1 .. Cardinality(S) -> S] : \A i, j \in DOMAIN q : i < j => q[i] < q[j]

\* The first entry of pts, whatever its start.
first_of_pts(appts, P) ==
    CHOOSE k \in P : \A j \in P : k <= j

\* min(pts, key=lambda r: r["start_ts"]): the first entry of least start_ts.
min_by_start(appts, P) ==
    CHOOSE k \in P :
        \A j \in P : \/ appts[k].start_ts < appts[j].start_ts
                     \/ appts[k].start_ts = appts[j].start_ts /\ k <= j

\* A list without its element x (x occurs once).
list_remove(q, x) ==
    SelectSeq(q, LAMBDA y : y # x)

\* id_to_order = {a["id"]: i for i, a in enumerate(ordered)} and the sort key
\* id_to_order.get(r["id"], 9999) of an entry a.
sort_key(appts, ordered, a) ==
    LET at == {i \in DOMAIN ordered : appts[ordered[i]].id = a.id}
    IN IF at = {} THEN unranked
       ELSE (CHOOSE i \in at : \A j \in at : j <= i) - 1

\* sorted(appts, key=...): stable, so entries of equal key keep their order.
sorted_by_key(appts, ordered) ==
    LET n == Len(appts)
        key(k) == sort_key(appts, ordered, appts[k])
        perm == CHOOSE q \in [1 .. n -> 1 .. n] :
                    \A i, j \in 1 .. n : i < j =>
                        \/ key(q[i]) < key(q[j])
                        \/ key(q[i]) = key(q[j]) /\ q[i] < q[j]
    IN [k \in 1 .. n |-> appts[perm[k]]]

\* Lines 291-298: pts; the early return; ordered, remaining; and the head of
\* the while loop (best = None, best_score = 1e9, the for loop starts).
opt_begin ==
    /\ r_pc = "start"
    /\ LET P == pts_positions(r_appts)
       IN IF too_few(Cardinality(P))
          THEN /\ r_out' = r_appts
               /\ r_pc' = "done"
               /\ UNCHANGED <<r_ordered, r_remaining, r_k, r_best, r_best_score,
                              r_seen>>
          ELSE LET first == min_by_start(r_appts, P)
               IN /\ r_ordered' = <<first>>
                  /\ r_remaining' = in_order(P \ {first})
                  /\ r_best' = 0
                  /\ r_best_score' = best_score_init
                  /\ r_k' = 1
                  /\ r_seen' = <<>>
                  /\ r_pc' = IF P \ {first} = {} THEN "sort" ELSE "for"
                  /\ UNCHANGED r_out
    /\ UNCHANGED <<patients, patient_seq, appointments, messages, resp, workerVars,
                   textVars,
                   r_appts>>

\* Lines 299-306: one pass of the for loop, for r = remaining[r_k]; `dm` is what
\* distance_matrix_minutes(last, r) returns.
opt_for(dm) ==
    /\ r_pc = "for"
    /\ LET last == r_appts[r_ordered[Len(r_ordered)]]
           r == r_appts[r_remaining[r_k]]
           mins == IF dm = NoNumber
                   THEN haversine(last.lat[1], last.lon[1], r.lat[1], r.lon[1])
                   ELSE <<dm[1], 0>>
       IN /\ IF score_less(mins, r_best_score)
             THEN r_best' = r_remaining[r_k] /\ r_best_score' = mins
             ELSE UNCHANGED <<r_best, r_best_score>>
          /\ r_seen' = Append(r_seen, mins)
    /\ r_k' = r_k + 1
    /\ r_pc' = IF r_k = Len(r_remaining) THEN "pick" ELSE "for"
    /\ UNCHANGED <<patients, patient_seq, appointments, messages, resp, workerVars,
                   textVars,
                   r_appts, r_ordered, r_remaining, r_out>>

\* Line 307, and the head of the while loop again: ordered.append(best);
\* remaining.remove(best), which raises ValueError when best is still None.
opt_pick ==
    /\ r_pc = "pick"
    /\ r_ordered' = Append(r_ordered, r_best)
    /\ IF r_best = 0
       THEN /\ r_pc' = "aborted"
            /\ UNCHANGED <<r_remaining, r_k, r_best, r_best_score, r_seen>>
       ELSE /\ r_remaining' = list_remove(r_remaining, r_best)
            /\ r_best' = 0
            /\ r_best_score' = best_score_init
            /\ r_k' = 1
            /\ r_seen' = <<>>
            /\ r_pc' = IF Len(r_remaining) = 1 THEN "sort" ELSE "for"
    /\ UNCHANGED <<patients, patient_seq, appointments, messages, resp, workerVars,
                   textVars,
                   r_appts, r_out>>

\* Lines 308-309: id_to_order and the sorted copy returned.
opt_sort ==
    /\ r_pc = "sort"
    /\ r_out' = sorted_by_key(r_appts, r_ordered)
    /\ r_pc' = "done"
    /\ UNCHANGED <<patients, patient_seq, appointments, messages, resp, workerVars,
                   textVars,
                   r_appts, r_ordered, r_remaining, r_k, r_best, r_best_score, r_seen>>

\* The entries a call may be given: no coordinates, a latitude alone, or a
\* point on the equator; an early or a late start.
Coordinates ==
    {[lat |-> NoNumber, lon |-> NoNumber], [lat |-> <<0>>, lon |-> NoNumber],
     [lat |-> <<0>>, lon |-> <<0>>], [lat |-> <<0>>, lon |-> <<1>>],
     [lat |-> <<0>>, lon |-> <<3>>]}

StartTimes == {0, 1}

\* Ids are distinct; here they fall as the position rises.
RouteInputs ==
    UNION {{[k \in 1 .. n |->
                [id |-> n + 1 - k, lat |-> c[k].lat, lon |-> c[k].lon,
                 start_ts |-> t[k]]] :
            c \in [1 .. n -> Coordinates], t \in [1 .. n -> StartTimes]} :
           n \in 0 .. MaxStops}

InitRoute ==
    /\ patients = {}
    /\ patient_seq = 0
    /\ appointments = <<>>
    /\ messages = <<>>
    /\ resp = Response(0, NoRow, <<>>)
    /\ pc = [w \in Workers |-> "idle"]
    /\ req = [w \in Workers |-> NoRequest]
    /\ row = [w \in Workers |-> NoRow]
    /\ r_pc = "start"
    /\ r_appts \in RouteInputs
    /\ r_ordered = <<>>
    /\ r_remaining = <<>>
    /\ r_k = 0
    /\ r_best = 0
    /\ r_best_score = <<0, 0>>
    /\ r_seen = <<>>
    /\ r_out = <<>>
    /\ t_pc = "idle"
    /\ t_text = <<>>
    /\ t_base = 0
    /\ t_intent = None
    /\ t_parsed = NoParse

OptFor ==
    \E dm \in DriveMinutes : opt_for(dm)

NextRoute ==
    \/ opt_begin
    \/ OptFor
    \/ opt_pick
    \/ opt_sort

SpecRoute == InitRoute /\ [][NextRoute]_vars

\* One pass of the for loop when no drive time is to be had: best, the first
\* entry of `remaining` nearest to `last` in haversine kilometres among those
\* nearer than best_score's 1e9; 0 when there is none (best stays None).
nearest(appts, last, remaining) ==
    LET mins(i) == haversine(appts[last].lat[1], appts[last].lon[1],
                             appts[remaining[i]].lat[1], appts[remaining[i]].lon[1])
        cand == {i \in DOMAIN remaining : score_less(mins(i), best_score_init)}
    IN IF cand = {} THEN 0
       ELSE remaining[CHOOSE i \in cand : \A j \in cand :
                         \/ score_less(mins(i), mins(j))
                         \/ ~score_less(mins(j), mins(i)) /\ i <= j]

\* The while loop run to its end: `ordered`, ending with 0 when
\* remaining.remove(None) raises.
RECURSIVE route_from(_, _, _)
route_from(appts, ordered, remaining) ==
    IF remaining = <<>> THEN ordered
    ELSE LET best == nearest(appts, ordered[Len(ordered)], remaining)
         IN IF best = 0 THEN Append(ordered, 0)
            ELSE route_from(appts, Append(ordered, best), list_remove(remaining, best))

\* optimize_route(appts) run to completion without drive times: whether it
\* raised, and the list it returned.
optimize_route(appts) ==
    LET P == pts_positions(appts)
    IN IF too_few(Cardinality(P)) THEN [raised |-> FALSE, out |-> appts]
       ELSE LET first == min_by_start(appts, P)
                ordered == route_from(appts, <<first>>, in_order(P \ {first}))
            IN IF ordered[Len(ordered)] = 0 THEN [raised |-> TRUE, out |-> <<>>]
               ELSE [raised |-> FALSE, out |-> sorted_by_key(appts, ordered)]

\* POST /schedule/optimize: a missing date is answered 400, a malformed one
\* makes datetime.fromisoformat raise (500); otherwise one SELECT
\* (list_appointments), optimize_route on its result, and the response with
\* the list it returned (500 when it raised).  After the SELECT the handler
\* reads and writes no table.
schedule_optimize(date, therapist) ==
    /\ UNCHANGED <<patients, patient_seq, appointments, messages>>
    /\ IF date.kind = "missing"
       THEN resp' = Response(400, NoRow, <<>>)
       ELSE IF date.kind = "bad"
       THEN resp' = Response(500, NoRow, <<>>)
       ELSE \E appts \in list_appointments(date.day, therapist) :
                LET route == optimize_route(appts)
                IN resp' = IF route.raised THEN Response(500, NoRow, <<>>)
                           ELSE Response(200, NoRow, route.out)

ScheduleOptimize ==
    /\ \E date \in Dates, therapist \in {"T1", None} :
        schedule_optimize(date, therapist)
    /\ UNCHANGED <<workerVars, routeVars, textVars>>

\* The schedule surface: POST /patients and POST /schedule, requests served at
\* the same time, every database access a step of its own, each worker one
\* request after another.
Next ==
    \/ PatientsCreate
    \/ ScheduleCreate
    \/ ApptSelect
    \/ ApptWrite
    \/ ScheduleReturn

Spec == Init /\ [][Next]_vars

\* The day's plan: GET /schedule and POST /schedule/optimize, served while
\* patients are registered and visits booked.  Each of the two is one SELECT
\* and what the handler makes of its result.
NextDay ==
    \/ PatientsCreate
    \/ ScheduleVisit
    \/ ApptSelect
    \/ ApptWrite
    \/ ScheduleReturn
    \/ ScheduleList
    \/ ScheduleOptimize

SpecDay == Init /\ [][NextDay]_vars

\* ------------------------------------------------------------ text functions
\* A call of detect_intent(text), and a call of
\* parse_natural_time_minimal(text, base), on a text and a reference day.
DetectIntent ==
    /\ t_pc = "input"
    /\ t_intent' = detect_intent(features(t_text))
    /\ t_pc' = "classified"
    /\ UNCHANGED <<patients, patient_seq, appointments, messages, resp, workerVars,
                   routeVars, t_text, t_base, t_parsed>>

ParseTime ==
    /\ t_pc = "input"
    /\ t_parsed' = parse_natural_time_minimal(features(t_text), t_base)
    /\ t_pc' = "parsed"
    /\ UNCHANGED <<patients, patient_seq, appointments, messages, resp, workerVars,
                   routeVars, t_text, t_base, t_intent>>

InitText ==
    /\ patients = {}
    /\ patient_seq = 0
    /\ appointments = <<>>
    /\ messages = <<>>
    /\ resp = Response(0, NoRow, <<>>)
    /\ pc = [w \in Workers |-> "idle"]
    /\ req = [w \in Workers |-> NoRequest]
    /\ row = [w \in Workers |-> NoRow]
    /\ r_pc = "idle"
    /\ r_appts = <<>>
    /\ r_ordered = <<>>
    /\ r_remaining = <<>>
    /\ r_k = 0
    /\ r_best = 0
    /\ r_best_score = <<0, 0>>
    /\ r_seen = <<>>
    /\ r_out = <<>>
    /\ t_pc = "input"
    /\ t_text \in Texts
    /\ t_base \in RefDays
    /\ t_intent = None
    /\ t_parsed = NoParse

NextText ==
    \/ DetectIntent
    \/ ParseTime

SpecText == InitText /\ [][NextText]_vars

\* ===================================================================
\* Properties of the appointment directory
\* ===================================================================
\* The local calendar day a stored start_ts falls on.
local_day(ts) ==
    from_epoch(ts).day

\* The rows of a patient on a local calendar day.
rows_on(appts, pid, day) ==
    {i \in DOMAIN appts : appts[i].patient_id = pid /\ local_day(appts[i].start_ts) = day}

\* Every patient has at most one row on any local calendar day.
one_row_per_day(appts) ==
    \A i, j \in DOMAIN appts :
        (i # j /\ appts[i].patient_id = appts[j].patient_id)
            => local_day(appts[i].start_ts) # local_day(appts[j].start_ts)

\* The upsert of worker w is about to write and is served by itself: no other
\* request is between its first database access and its response, and the
\* row (or none) its SELECT returned is what the SELECT returns on the table
\* as it is now.
served_alone(w) ==
    /\ pc[w] = "write"
    /\ \A u \in Workers \ {w} : pc[u] \in {"idle", "done"}
    /\ LET rows == appt_lookup(appointments, req[w].patient_id, req[w].start_dt)
       IN IF rows = {} THEN row[w] = NoRow ELSE row[w] \in rows

\* C1: after any sequence of upserts handled one at a time, starting from an
\* empty table, every patient has at most one appointment row on any local
\* calendar day (starts at local midnight and adjacent days included): the
\* table starts empty, and an upsert served by itself on a table with at most
\* one row per patient and day leaves such a table.
C1_OneRowPerPatientDay ==
    [][\A w \in Workers :
        (served_alone(w) /\ pc'[w] = "done" /\ one_row_per_day(appointments))
            => one_row_per_day(appointments')
      ]_vars

\* C2: when upserts for the same patient and calendar day are handled
\* concurrently, starting with no appointment for that patient and day, then
\* once they are all done the table holds exactly one row for that patient and
\* day.
C2_ConcurrentUpsertsOneRow ==
    \A v, w \in Workers :
        ( /\ v # w
          /\ \A u \in Workers : pc[u] = "done" /\ req[u].patient_id # NoRow
          /\ req[v].patient_id = req[w].patient_id
          /\ local_day(to_epoch(req[v].start_dt)) = local_day(to_epoch(req[w].start_dt))
          /\ \A u \in Workers :
                req[u].patient_id = req[v].patient_id
                    => local_day(to_epoch(req[u].start_dt))
                         = local_day(to_epoch(req[v].start_dt)) )
        => Cardinality(rows_on(appointments, req[v].patient_id,
                               local_day(to_epoch(req[v].start_dt)))) = 1

\* C3: of two consecutive upserts for the same patient with starts on the same
\* calendar day, the second returns the id the first returned, adds no row, and
\* leaves that row with the therapist, start, duration, status, source and note
\* of the second; with arguments identical to the first's the table does not
\* change.  (resp.id # NoRow: the request last answered was an upsert, and row
\* resp.id holds its patient, start and fields; the second upsert is served by
\* itself after it.)
C3_SecondUpsertSameRow ==
    [][\A w \in Workers :
        ( /\ served_alone(w) /\ pc'[w] = "done"
          /\ resp.code = 200 /\ resp.id # NoRow
          /\ req[w].patient_id = appointments[resp.id].patient_id
          /\ local_day(to_epoch(req[w].start_dt))
                = local_day(appointments[resp.id].start_ts) )
        => LET new == [id |-> resp.id, patient_id |-> req[w].patient_id,
                       therapist |-> req[w].therapist,
                       start_ts |-> to_epoch(req[w].start_dt),
                       duration_min |-> req[w].duration_min,
                       status |-> req[w].status,
                       source |-> req[w].source, note |-> req[w].note]
           IN /\ resp'.id = resp.id
              /\ Len(appointments') = Len(appointments)
              /\ appointments'[resp.id] = new
              /\ (appointments[resp.id] = new => appointments' = appointments)
      ]_vars

\* C4: for every stored table, day and optional therapist filter,
\* list_appointments returns exactly the rows whose start_ts lies in the
\* half-open window [local midnight of the day, next local midnight) and whose
\* therapist matches the filter when given, in ascending start_ts order; so
\* each row is listed for exactly one day.
C4_ListIsHalfOpenDay ==
    \A day \in 0 .. (MaxDays + 1), therapist \in {"T1", "therapist", None} :
        \A result \in list_appointments(day, therapist) :
            /\ {result[k].id : k \in DOMAIN result}
                 = {i \in DOMAIN appointments :
                        /\ local_day(appointments[i].start_ts) = day
                        /\ (therapist = None \/ appointments[i].therapist = therapist)}
            /\ \A k, l \in DOMAIN result :
                   k < l => result[k].start_ts <= result[l].start_ts
            /\ \A k, l \in DOMAIN result : k # l => result[k].id # result[l].id

\* C13: after any sequence of patient upserts, schedule creates and inbound
\* messages, every appointment's patient_id is the id of a patient row that
\* exists (so an upsert of a patient under a phone already on file keeps the id
\* its appointments carry).
C13_AppointmentsReferencePatients ==
    \A i \in DOMAIN appointments :
        \E p \in patients : p.id = appointments[i].patient_id

\* ===================================================================
\* Properties of the messaging and schedule handlers
\* ===================================================================
\* The phone is on file.
known(frm) ==
    frm # "" /\ \E p \in patients : p.phone = frm

\* The step appends exactly the rows `added` to the message store.
appended(added) ==
    messages' = messages \o added

\* The inbound row, and the auto-reply row, a handler logs.
is_inbound(m, frm, intent) ==
    m.direction = "in" /\ m.frm = frm /\ m.intent = intent

is_auto_reply(m, frm) ==
    m.direction = "out" /\ m.to_number = frm /\ m.note = "auto-reply"

\* The step creates or updates exactly one row, of patient pid, leaving it
\* with the given start and status, and touches no other row.
one_row_upserted(pid, start_ts, status) ==
    /\ Len(appointments') \in {Len(appointments), Len(appointments) + 1}
    /\ \E id \in DOMAIN appointments' :
        /\ appointments'[id].patient_id = pid
        /\ appointments'[id].start_ts = start_ts
        /\ appointments'[id].status = status
        /\ appointments'[id].source = "inbound"
        /\ id \in DOMAIN appointments =>
               /\ Len(appointments') = Len(appointments)
               /\ appointments[id].patient_id = pid
        /\ id \notin DOMAIN appointments => Len(appointments') = Len(appointments) + 1
        /\ \A j \in DOMAIN appointments : j # id => appointments'[j] = appointments[j]

\* The rows a step added to the message store.
new_messages ==
    SubSeq(messages', Len(messages) + 1, Len(messages'))

\* Worker w is handling an inbound message (POST /simulate-sms or
\* POST /inbound-sms).
messaging(w) ==
    req[w].handler \in {"simulate", "inbound"}

\* The body yields a start, whatever the day it is read on.
yields_start(body) ==
    \A now \in NowDays : parse_natural_time(body, now).found

\* Worker w takes a message in this step: the step appends the inbound row,
\* with the sender and the classified intent, and nothing else, and changes no
\* appointment.
inbound_logged(w) ==
    (pc[w] = "idle" /\ pc'[w] = "find")
        => /\ Len(new_messages) = 1
           /\ appended(new_messages)
           /\ is_inbound(new_messages[1], req'[w].frm, detect_intent(req'[w].body))
           /\ appointments' = appointments

\* Every message taken so far has its inbound row in the store exactly once:
\* for each sender and intent there are as many inbound rows as messages
\* taken.
inbound_once ==
    \A frm \in Senders, intent \in {"confirm", "reschedule", "time", "other"} :
        Cardinality({k \in DOMAIN messages : is_inbound(messages[k], frm, intent)})
          = Cardinality({w \in Workers :
                            /\ messaging(w) /\ pc[w] # "idle"
                            /\ req[w].frm = frm
                            /\ detect_intent(req[w].body) = intent})

\* The handlers in `repliers` log an auto-reply after scheduling; a simulated
\* confirmation is answered in the log whether or not it scheduled.
reply_due(w, repliers) ==
    \/ req[w].patient_id # NoRow /\ req[w].handler \in repliers
    \/ req[w].handler = "simulate" /\ detect_intent(req[w].body) = "confirm"

\* Once the messages are handled, the store holds one auto-reply row for each
\* that was due one, and for a message that scheduled the reply row comes
\* after the message's inbound row.
replies_logged(repliers) ==
    /\ \A frm \in Senders :
        Cardinality({k \in DOMAIN messages : is_auto_reply(messages[k], frm)})
          = Cardinality({w \in Workers :
                            /\ messaging(w) /\ pc[w] = "done"
                            /\ req[w].frm = frm
                            /\ reply_due(w, repliers)})
    /\ \A w \in Workers :
        ( /\ messaging(w) /\ pc[w] = "done"
          /\ req[w].patient_id # NoRow /\ req[w].handler \in repliers )
        => \E k, l \in DOMAIN messages :
            /\ k < l
            /\ is_inbound(messages[k], req[w].frm, detect_intent(req[w].body))
            /\ is_auto_reply(messages[l], req[w].frm)

\* What worker w does, step by step, with a message from a patient on file
\* whose body yields a start: the inbound row is logged as the message is
\* taken; the lookup finds the patient and goes on to the upsert of the parsed
\* start, confirmed for a confirmation and pending otherwise; the upsert
\* creates or updates exactly one row; and the handlers in `repliers` then
\* log the auto-reply.  No other step of the message changes a table.
scheduled_steps(w, repliers) ==
    LET r == req[w]
        intent == detect_intent(r.body)
    IN /\ yields_start(req'[w].body) => inbound_logged(w)
       /\ (pc[w] = "find" /\ pc'[w] # "find" /\ known(r.frm) /\ yields_start(r.body))
            => /\ pc'[w] = "select"
               /\ UNCHANGED <<appointments, messages>>
               /\ \E p \in patients : p.phone = r.frm /\ req'[w].patient_id = p.id
               /\ \E now \in NowDays :
                    req'[w].start_dt = parse_natural_time(r.body, now).start
               /\ req'[w].status = IF intent = "confirm" THEN "confirmed" ELSE "pending"
       /\ (pc[w] = "select" /\ pc'[w] # "select" /\ messaging(w))
            => /\ pc'[w] = "write"
               /\ UNCHANGED <<appointments, messages>>
       /\ (pc[w] = "write" /\ pc'[w] # "write" /\ messaging(w))
            => /\ one_row_upserted(r.patient_id, to_epoch(r.start_dt), r.status)
               /\ messages' = messages
               /\ pc'[w] = IF r.handler \in repliers THEN "reply" ELSE "done"
       /\ (pc[w] = "reply" /\ pc'[w] # "reply" /\ r.patient_id # NoRow)
            => /\ Len(new_messages) = 1
               /\ appended(new_messages)
               /\ is_auto_reply(new_messages[1], r.frm)
               /\ appointments' = appointments
               /\ pc'[w] = "done"

\* C5 as claimed: handling an inbound message (either handler) from a known
\* patient's phone, with a parsed start, upserts exactly one row of that
\* patient with the parsed start and status confirmed (pending when the intent
\* is not confirm), and appends exactly one inbound row followed by one
\* auto-reply row.
C5_InboundThenReplyLogged ==
    /\ [](inbound_once /\ replies_logged({"simulate", "inbound"}))
    /\ [][\A w \in Workers : scheduled_steps(w, {"simulate", "inbound"})]_vars

\* C5 amended: as C5, but the inbound row is followed by a logged auto-reply
\* row only on simulate-sms; inbound-sms appends the inbound row alone (its
\* reply goes out in the HTTP response and is not stored).
C5_InboundLoggedReplyOnSimulate ==
    /\ [](inbound_once /\ replies_logged({"simulate"}))
    /\ [][\A w \in Workers : scheduled_steps(w, {"simulate"})]_vars

\* C5 witness: a simulated "yes" with a time of day, from the patient on file,
\* has been handled to its end; its upsert found the pending row an earlier
\* message had created and updated it to confirmed; the inbound row and, after
\* it, the auto-reply are in the store.
C5_Witness ==
    \E v, w \in Workers :
        /\ v # w
        /\ pc[v] = "done" /\ messaging(v) /\ req[v].status = "pending"
        /\ pc[w] = "done" /\ req[w].handler = "simulate"
        /\ req[w].frm = Phone /\ req[w].patient_id # NoRow
        /\ req[w].status = "confirmed"
        /\ row[v] = NoRow /\ row[w] # NoRow
        /\ Len(appointments) = 1
        /\ appointments[row[w]].status = "confirmed"
        /\ appointments[row[w]].patient_id = req[w].patient_id
        /\ \E k, l \in DOMAIN messages :
            /\ k < l
            /\ is_inbound(messages[k], Phone, "confirm")
            /\ messages[k].kind = "simulate"
            /\ is_auto_reply(messages[l], Phone)

\* C6: an inbound message (either handler) whose phone matches no patient, or
\* whose body yields no start, is not an error: the inbound row is appended
\* exactly once, with the classified intent; the lookup goes on to no upsert,
\* so that no step of the message creates or modifies an appointment row; and
\* the response is a success.
C6_SkippedSchedulingStillLogs ==
    /\ [](/\ inbound_once
          /\ \A w \in Workers :
                (messaging(w) /\ req[w].patient_id = NoRow)
                    => pc[w] \notin {"select", "write"})
    /\ [][\A w \in Workers :
            LET r == req[w]
            IN /\ inbound_logged(w)
               /\ ( /\ pc[w] = "find" /\ pc'[w] # "find"
                    /\ ~known(r.frm) \/ ~yields_start(r.body) )
                    => /\ pc'[w] \in {"reply", "done"}
                       /\ req'[w].patient_id = NoRow
                       /\ UNCHANGED <<appointments, messages>>
                       /\ pc'[w] = "done" => resp'.code = 200
               /\ (pc[w] = "reply" /\ pc'[w] # "reply" /\ r.patient_id = NoRow)
                    => /\ appointments' = appointments
                       /\ \A k \in DOMAIN new_messages : new_messages[k].direction # "in"
                       /\ pc'[w] = "done"
                       /\ resp'.code = 200
      ]_vars

\* C6 witness: while the patient on file has an appointment, a message with a
\* time of day from a phone that is not on file has been answered with a
\* success; it has its inbound row and never entered the upsert.
C6_Witness ==
    /\ appointments # <<>>
    /\ \E w \in Workers :
        /\ pc[w] = "done" /\ messaging(w)
        /\ req[w].frm = OtherPhone /\ yields_start(req[w].body)
        /\ req[w].patient_id = NoRow
        /\ resp.code = 200
        /\ \E k \in DOMAIN messages :
            is_inbound(messages[k], OtherPhone, detect_intent(req[w].body))

\* A request with a required field missing or a malformed start, on the
\* schedule surface and POST /send-sms.
invalid_request ==
    \/ \E body \in {Hello, Empty} : send_sms("", body, TRUE)
    \/ \E to \in {Phone, ""} : send_sms(to, Empty, TRUE)
    \/ \E w \in Workers, start \in SchedStarts, opt \in SchedOptions,
          now \in NowDays :
        schedule_create(w, NoRow, start, opt, now)
    \/ \E w \in Workers, pid \in 0 .. MaxPatientId, start \in SchedStarts,
          opt \in SchedOptions, now \in NowDays :
        start.kind # "iso" /\ schedule_create(w, pid, start, opt, now)
    \/ \E therapist \in {"T1", None} :
        schedule_optimize([kind |-> "missing", day |-> 0], therapist)

\* The POST /simulate-sms request r has no From or no Body.
lacks_field(r) ==
    r.handler = "simulate" /\ (r.frm = "" \/ r.body.empty)

\* C7: a request with a missing required field or a malformed date/time gets an
\* error response and leaves the messages, patients and appointments tables as
\* they were: no step of its handling changes a table, and the response it
\* ends with is an error.
C7_InvalidRequestNoMutation ==
    [][/\ invalid_request
            => /\ resp'.code >= 400
               /\ UNCHANGED <<patients, patient_seq, appointments, messages>>
       /\ \A w \in Workers :
            (pc'[w] # pc[w] /\ lacks_field(req'[w]))
                => /\ UNCHANGED <<patients, patient_seq, appointments, messages>>
                   /\ pc'[w] = "done" => resp'.code >= 400
      ]_vars


\* ===================================================================
\* Properties of the route optimizer (SpecRoute)

has_coordinates(a) ==
    a.lat # NoNumber /\ a.lon # NoNumber

\* q holds the entries of appts, each id exactly once.
same_ids_once(appts, q) ==
    /\ Len(q) = Len(appts)
    /\ \A k \in DOMAIN appts : Cardinality({i \in DOMAIN q : q[i].id = appts[k].id}) = 1
    /\ \A i \in DOMAIN q : \E k \in DOMAIN appts : q[i] = appts[k]

\* C8: whatever the entries (with or without coordinates, distinct ids) and
\* whatever each distance lookup returns, optimize_route never aborts, and
\* what it returns is a permutation of its input: every id exactly once.
C8_CompletesWithPermutation ==
    /\ r_pc # "aborted"
    /\ r_pc = "done" => same_ids_once(r_appts, r_out)

\* C9: when at least two entries have coordinates, the first entry returned
\* has coordinates and no coordinate-bearing entry starts before it, also when
\* the input holds entries without coordinates that start earlier or come
\* first.
C9_FirstIsEarliestWithCoordinates ==
    (r_pc = "done" /\ Cardinality(pts_positions(r_appts)) >= 2) =>
        /\ has_coordinates(r_out[1])
        /\ \A k \in pts_positions(r_appts) : r_out[1].start_ts <= r_appts[k].start_ts

\* A call has returned for an input of three entries whose first has no
\* coordinates and starts before the two that have them, the later-starting of
\* which comes first.
C9_Witness ==
    /\ r_pc = "done"
    /\ Len(r_appts) = 3
    /\ ~has_coordinates(r_appts[1]) /\ r_appts[1].start_ts = 0
    /\ has_coordinates(r_appts[2]) /\ r_appts[2].start_ts = 1
    /\ has_coordinates(r_appts[3]) /\ r_appts[3].start_ts = 1
    /\ r_appts[2].lon # r_appts[3].lon
    /\ r_out[1] = r_appts[2]

\* C10: when fewer than two entries have both a latitude and a longitude
\* (no entry, one entry, or several of which at most one has coordinates), the
\* call returns its input as it is, in the same order.
C10_TooFewReturnsInput ==
    (r_pc = "done" /\ Cardinality(pts_positions(r_appts)) < 2) => r_out = r_appts

\* A call has returned for an input of two or more entries of which exactly
\* one, not the first, has coordinates.
C10_Witness ==
    /\ r_pc = "done"
    /\ Len(r_appts) >= 2
    /\ Cardinality(pts_positions(r_appts)) = 1
    /\ ~has_coordinates(r_appts[1])
    /\ r_out = r_appts


\* ===================================================================
\* Properties of the nearest-neighbour order (SpecRoute)

\* a <= b on scores.
score_leq(a, b) ==
    \/ a[1] < b[1]
    \/ a[1] = b[1] /\ a[2] <= b[2]

\* The entries of a list that have coordinates, in the list's order.
stops_of(q) ==
    SelectSeq(q, has_coordinates)

\* C14: every coordinate-bearing stop after the first is a closest
\* not-yet-visited stop to its predecessor, by the score of each pair (the
\* drive time when the lookup gave one, the haversine distance when not).
\* When a pass of the for loop ends, `remaining` holds the coordinate-bearing
\* stops not yet visited, r_seen their scores from the last stop visited, and
\* the stop chosen has a score no greater than any of them; that stop is the
\* one visited next; and the coordinate-bearing stops of the output come in
\* the order visited.
C14_NextStopIsNearest ==
    /\ [](r_pc = "pick" =>
            /\ Len(r_seen) = Len(r_remaining)
            /\ {r_remaining[k] : k \in DOMAIN r_remaining}
                 = pts_positions(r_appts) \ {r_ordered[i] : i \in DOMAIN r_ordered}
            /\ r_best # 0 =>
                   \E k \in DOMAIN r_remaining :
                       /\ r_remaining[k] = r_best
                       /\ \A j \in DOMAIN r_remaining : score_leq(r_seen[k], r_seen[j]))
    /\ []((r_pc = "done" /\ Cardinality(pts_positions(r_appts)) >= 2) =>
            stops_of(r_out) = [i \in DOMAIN r_ordered |-> r_appts[r_ordered[i]]])
    /\ [][(r_pc = "pick" /\ r_best # 0) => r_ordered' = Append(r_ordered, r_best)]_vars

\* A call has returned for three coordinate-bearing stops, visiting the third
\* of the input before the second.
C14_Witness ==
    /\ r_pc = "done"
    /\ Len(r_appts) = 3
    /\ \A k \in 1 .. 3 : has_coordinates(r_appts[k])
    /\ r_out = <<r_appts[1], r_appts[3], r_appts[2]>>

\* ===================================================================
\* Properties of the text functions (SpecText)

\* C11: detect_intent returns confirm if the text holds a confirm keyword,
\* otherwise reschedule if it holds a reschedule keyword, otherwise time if it
\* holds a time pattern, otherwise other; the empty text yields other, and the
\* result is always one of the four labels.
C11_IntentByPriority ==
    t_pc = "classified" =>
        LET t == lower(t_text)
            has_time == \E i \in DOMAIN t : TIME_RE(t[i]).kind # "none"
        IN /\ t_intent \in {"confirm", "reschedule", "time", "other"}
           /\ YES_RE(t) => t_intent = "confirm"
           /\ (~YES_RE(t) /\ RESCH_RE(t)) => t_intent = "reschedule"
           /\ (~YES_RE(t) /\ ~RESCH_RE(t) /\ has_time) => t_intent = "time"
           /\ (~YES_RE(t) /\ ~RESCH_RE(t) /\ ~has_time) => t_intent = "other"
           /\ t_text = <<>> => t_intent = "other"

\* A text with a confirm keyword and a time of day has been classified as
\* confirm.
C11_Witness ==
    /\ t_pc = "classified"
    /\ t_text = <<"OK", "3pm">>
    /\ t_intent = "confirm"

\* C12: for every reference weekday and every text that names a weekday, does
\* not contain "tomorrow" and holds a valid time, the fallback parser's target
\* day is 1 to 7 days after the reference day, never the reference day.
C12_WeekdayStrictlyAfter ==
    ( /\ t_pc = "parsed"
      /\ features(t_text).wds # {}
      /\ ~features(t_text).tomorrow
      /\ features(t_text).time = "ok" )
    => /\ t_parsed.found
       /\ t_parsed.start.day - t_base \in 1 .. 7

====
